---------------------------- MODULE Spec2Model ----------------------------
(***************************************************************************)
(* Browser-side scripts of the GeoScale malaria ETL application.           *)
(*                                                                         *)
(* One browser tab shows one page; the page's script owns the page-global  *)
(* variables and the DOM of that page.  The pages modelled are             *)
(*   "user"      staticfiles/upload_app/js/user-upload_app.js              *)
(*   "admin"     app/upload_app/static/upload_app/js/admin-upload-app.js   *)
(*   "dashboard" app/analytics_dashboard/static/js/dashboard.js            *)
(*   "auth"      staticfiles/js/auth.js (the registration form)            *)
(* Every handler runs to completion on the single event loop, so a handler *)
(* (up to its next await) is one atomic action.                            *)
(***************************************************************************)
EXTENDS Integers, Sequences, FiniteSets, TLC

(***************************************************************************)
(* Bounds of the exploration                                               *)
(***************************************************************************)
\* upload POSTs of the user page that may be unanswered at the same time
MaxInFlight == 2
\* pending setTimeout(selectNextAvailableUpload) callbacks on the user page
MaxTimers == 1
\* dashboard: upload and start_merge requests that may be unanswered at the same time
MaxPending == 1
\* dashboard: status requests that may be unanswered at the same time
MaxPolls == 2
\* toast or alert elements created during the life of a page
MaxNotes == 4

(***************************************************************************)
(* Values                                                                  *)
(***************************************************************************)
Pages == {"user", "admin", "dashboard", "auth"}

\* the upload categories, in document order of the sidebar
TypeOrder == <<"health-center", "hmis-api", "temperature", "precipitation">>

Types == {TypeOrder[i] : i \in DOMAIN TypeOrder}

Status == {"available", "processing", "completed", "disabled"}

Outcomes == {"success", "failure", "rejected"}

\* process ids the server hands out in upload responses
PIDs == {"p1", "p2"}

\* the two file slots of the dashboard and the files a user may pick
Slots == {"boundaries", "geotiff"}

\* file names offered to the file inputs, as sequences of characters: the one
\* name is a GeoTIFF name in upper case, so it passes validateFileType for the
\* geotiff input and fails it for the boundaries input (the selection handler
\* records a file whatever the verdict)
FileNames == {<<"s", ".", "T", "I", "F">>}

\* uploadedFiles[slot] before a file was picked
Null == << >>

ProcIds == PIDs \cup {"null"}

\* bodies of a status response: {progress, completed, error, file_statistics};
\* file_statistics is present or absent, error is read only when completed is set;
\* one percentage below 100 stands for all of them
StatusBodies ==
    {b \in [progress : {60}, completed : BOOLEAN, error : BOOLEAN,
            file_statistics : BOOLEAN] : b.error => b.completed}

\* console.error messages
NoLog == "none"

\* setInterval ids, named by who still refers to them: "current" is the id held by
\* progressInterval, "orphan" stands for every id progressInterval held before and
\* lost when startProgressMonitoring overwrote it (no code can name such an id
\* again, so orphaned timers are alike: each keeps firing for the life of the page)
IntervalIds == {"current", "orphan"}

Tabs == {"upload", "process", "statistics"}

Note(m, a) == [msg |-> m, arg |-> a]

NoNote == Note("none", "-")

\* a request: its URL, the id or category it carries, and the files appended to
\* its FormData (none but for the dashboard's upload)
Req(u, a) == [url |-> u, arg |-> a, files |-> [s \in Slots |-> Null]]

\* the dashboard's upload POST: 'geojson' and 'geotiff' are the two uploadedFiles
UploadReq(files) == [url |-> "/geospatial/upload_files/", arg |-> "-", files |-> files]

NoReq == Req("none", "-")

VARIABLES
    page,            \* the page loaded in the tab
    uploadStatus,    \* user page: the page-global mapping category -> status
    statusClass,     \* user page: status class carried by each sidebar item/section
    activeItems,     \* '.upload-item' elements carrying class 'active'
    activeSections,  \* '.upload-section' elements carrying class 'active'
    inputsDisabled,  \* per section: its inputs' disabled property
    btnDisabled,     \* per section: its submit button's disabled property
    btnText,         \* per section: its submit button's innerHTML
    sessionStore,    \* sessionStorage['uploadStatus']: absent, or the saved string
    inflight,        \* per category: upload POSTs sent and not yet answered
    selectTimers,    \* pending setTimeout(selectNextAvailableUpload, 1500)
    resetTimers,     \* admin page: sections with a pending 30 s button reset
    uploadedFiles,   \* dashboard: the page-global { boundaries, geotiff }
    currentProcessId,\* dashboard: page-global, "null" or a process id
    progressInterval,\* dashboard: page-global, "null" or the id setInterval returned
    startTime,       \* dashboard: page-global, "null" or "set"
    intervals,       \* dashboard: ids of the interval timers that are running
    buttonsDisabled, \* dashboard: disabled property of validateBtn and uploadBtn
    activeTab,       \* dashboard: the '.tab-content' carrying 'active'
    progress,        \* dashboard: percentage and message of the progress display
    pendingUploads,  \* dashboard: unanswered POSTs to /geospatial/upload_files/
    pendingMerges,   \* dashboard: unanswered POSTs to /geospatial/api/start_merge/
    pendingPolls,    \* dashboard: unanswered GETs of /geospatial/api/status/
    stats,           \* dashboard: what the statistic fields show
    summary,         \* dashboard: what processingTime and processingSummary show
    logged,          \* dashboard: the console.error of the most recent handler
    positionValue,   \* registration form: value of the select #id_position
    customDisplay,   \* registration form: style.display of #custom-position-field
    elements,        \* the toast/alert elements created so far, in order of creation
    thrown,          \* a removal timer's callback has raised an error
    shown,           \* the toast/alert displayed by the most recent handler
    sent             \* the request issued by the most recent handler

userVars == <<uploadStatus, statusClass, inputsDisabled, sessionStore,
              inflight, selectTimers>>

domVars == <<activeItems, activeSections, btnDisabled, btnText>>

dashVars == <<uploadedFiles, currentProcessId, progressInterval, startTime, intervals,
              buttonsDisabled, activeTab, progress, pendingUploads, pendingMerges,
              pendingPolls, stats, summary>>

authVars == <<positionValue, customDisplay>>

noteVars == <<elements, thrown>>

vars == <<page, positionValue, customDisplay, uploadStatus, statusClass, activeItems, activeSections,
          inputsDisabled, btnDisabled, btnText, sessionStore,
          inflight, selectTimers, resetTimers,
          uploadedFiles, currentProcessId, progressInterval, startTime, intervals,
          buttonsDisabled, activeTab, progress, pendingUploads, pendingMerges,
          pendingPolls, stats, summary, logged, elements, thrown, shown, sent>>

\* everything but the toast and alert elements
handlerVars == <<page, authVars, logged, userVars, domVars, resetTimers, dashVars,
                 shown, sent>>

(***************************************************************************)
(* user-upload_app.js: pure helpers                                        *)
(***************************************************************************)
\* let uploadStatus = {...}: the mapping every page load starts from
DefaultUploadStatus == [t \in Types |-> "available"]

\* keys of a mapping in the order Object.keys / JSON.stringify enumerate them
KeysInOrder(m) == SelectSeq(TypeOrder, LAMBDA k : k \in DOMAIN m)

\* JSON.stringify(uploadStatus): the members "key":"value" in key order
Stringify(m) == [i \in 1..Len(KeysInOrder(m)) |-> <<KeysInOrder(m)[i], m[KeysInOrder(m)[i]]>>]

\* JSON.parse(savedStatus): the object with the members of the string
Parse(s) == [k \in {s[i][1] : i \in DOMAIN s} |-> s[CHOOSE i \in DOMAIN s : s[i][1] = k /\ \A j \in DOMAIN s : s[j][1] = k => j <= i][2]]

getOriginalButtonText(t) ==
    CASE t = "health-center" -> "Upload Health Records"
      [] t = "hmis-api" -> "Upload HMIS Data"
      [] t = "temperature" -> "Upload Temperature Data"
      [] t = "precipitation" -> "Upload Precipitation Data"
      [] OTHER -> "Upload Data"

\* the user page state touched by updateUploadState and the section switch
UserDom == [uploadStatus |-> uploadStatus, statusClass |-> statusClass,
            activeItems |-> activeItems, activeSections |-> activeSections,
            inputsDisabled |-> inputsDisabled, btnDisabled |-> btnDisabled,
            btnText |-> btnText, sessionStore |-> sessionStore]

userDom == <<uploadStatus, statusClass, activeItems, activeSections, inputsDisabled,
             btnDisabled, btnText, sessionStore>>

SetUserDom(u) ==
    /\ uploadStatus' = u.uploadStatus
    /\ statusClass' = u.statusClass
    /\ activeItems' = u.activeItems
    /\ activeSections' = u.activeSections
    /\ inputsDisabled' = u.inputsDisabled
    /\ btnDisabled' = u.btnDisabled
    /\ btnText' = u.btnText
    /\ sessionStore' = u.sessionStore

\* the DOM of a freshly loaded user page, before DOMContentLoaded
FreshUserDom(store) ==
    [uploadStatus |-> DefaultUploadStatus,
     statusClass |-> [t \in Types |-> "available"],
     activeItems |-> {TypeOrder[1]}, activeSections |-> {TypeOrder[1]},
     inputsDisabled |-> [t \in Types |-> FALSE],
     btnDisabled |-> [t \in Types |-> FALSE],
     btnText |-> [t \in Types |-> getOriginalButtonText(t)],
     sessionStore |-> store]

\* variant: the else branch restores the inputs and the text but not the button
updateFormStateKeepsDisabled(u, t, status) ==
    IF status \in {"completed", "disabled"}
    THEN [u EXCEPT !.inputsDisabled[t] = TRUE, !.btnDisabled[t] = TRUE,
                   !.btnText[t] = IF status = "completed" THEN "Upload Completed"
                                  ELSE "Upload Disabled"]
    ELSE [u EXCEPT !.inputsDisabled[t] = FALSE, !.btnText[t] = getOriginalButtonText(t)]

updateFormState(u, t, status) ==
    IF status = "completed" \/ status = "disabled"
    THEN [u EXCEPT !.inputsDisabled[t] = TRUE, !.btnDisabled[t] = TRUE,
                   !.btnText[t] = IF status = "completed" THEN "Upload Completed"
                                  ELSE "Upload Disabled"]
    ELSE [u EXCEPT !.inputsDisabled[t] = FALSE, !.btnDisabled[t] = FALSE,
                   !.btnText[t] = getOriginalButtonText(t)]

\* sessionStorage.getItem of a key never set: null
NoItem == [set |-> FALSE, text |-> << >>]

saveUploadStatus(u) ==
    [u EXCEPT !.sessionStore = [set |-> TRUE, text |-> Stringify(u.uploadStatus)]]

SetStatus(u, t, status) == [u EXCEPT !.uploadStatus = (t :> status) @@ u.uploadStatus]

\* variant: the mapping is saved before the new status is assigned
updateUploadStateSavesFirst(u, t, status) ==
    IF t \notin Types THEN u
    ELSE SetStatus(saveUploadStatus(updateFormState([u EXCEPT !.statusClass[t] = status],
                                                    t, status)),
                   t, status)

updateUploadState(u, t, status) ==
    IF t \notin Types
    THEN u
    ELSE saveUploadStatus(
             SetStatus(updateFormState([u EXCEPT !.statusClass[t] = status], t, status),
                       t, status))

\* variant: the clicked item is activated without deactivating the others
handleSectionSwitchKeepsOthers(u, t) ==
    [u EXCEPT !.activeItems = @ \cup {t},
              !.activeSections = IF t \in Types THEN @ \cup {t} ELSE @]

handleSectionSwitch(u, t) ==
    [u EXCEPT !.activeItems = {t},
              !.activeSections = IF t \in Types THEN {t} ELSE {}]

selectNextAvailableUpload(u) ==
    LET avail == SelectSeq(TypeOrder,
                           LAMBDA t : u.statusClass[t] \notin {"completed", "disabled"})
    IN  IF Len(avail) > 0 THEN handleSectionSwitch(u, avail[1]) ELSE u

RECURSIVE UpdateEach(_, _, _)
\* forEach over keys: updateUploadState(key, f(key)) in key order
UpdateEach(u, keys, f) ==
    IF keys = << >> THEN u
    ELSE UpdateEach(updateUploadState(u, Head(keys), f[Head(keys)]), Tail(keys), f)

updateAllUploadStates(u) ==
    LET v == UpdateEach(u, KeysInOrder(u.uploadStatus), u.uploadStatus)
        act == SelectSeq(TypeOrder, LAMBDA t : t \in v.activeItems)
    IN  IF Len(act) > 0 /\ v.uploadStatus[act[1]] = "completed"
        THEN selectNextAvailableUpload(v)
        ELSE v

loadUploadStatus(u) ==
    IF u.sessionStore.set
    THEN updateAllUploadStates([u EXCEPT !.uploadStatus = Parse(u.sessionStore.text)])
    ELSE u

\* variant: the loading text is shown but the button stays enabled
setButtonLoadingStateTextOnly(u, t) ==
    [u EXCEPT !.btnText[t] = "Uploading..."]

setButtonLoadingState(u, t) ==
    [u EXCEPT !.btnDisabled[t] = TRUE, !.btnText[t] = "Uploading..."]

Sum4(f) == f[TypeOrder[1]] + f[TypeOrder[2]] + f[TypeOrder[3]] + f[TypeOrder[4]]

(***************************************************************************)
(* user-upload_app.js: handlers                                            *)
(***************************************************************************)
\* variant: the click switches sections whatever the status of the item
ClickItemAlwaysSwitches(t) ==
    /\ page = "user"
    /\ sent' = NoReq
    /\ SetUserDom(handleSectionSwitch(UserDom, t))
    /\ shown' = NoNote
    /\ UNCHANGED <<page, authVars, noteVars, logged, inflight, selectTimers, resetTimers, dashVars>>

\* click listener of a sidebar item
ClickItem(t) ==
    /\ page = "user"
    /\ sent' = NoReq
    /\ IF uploadStatus[t] # "completed" /\ uploadStatus[t] # "disabled"
       THEN /\ SetUserDom(handleSectionSwitch(UserDom, t))
            /\ shown' = NoNote
       ELSE /\ UNCHANGED userDom
            /\ shown' = IF uploadStatus[t] = "completed"
                        THEN Note("This upload has already been completed!", "info")
                        ELSE Note("This upload section is currently disabled.", "warning")
    /\ UNCHANGED <<page, authVars, noteVars, logged, inflight, selectTimers,
                   resetTimers, dashVars>>

\* variant: the POST leaves twice for one submit event
handleRealDjangoSubmissionTwice(t) ==
    /\ inflight' = [inflight EXCEPT ![t] = @ + 2]
    /\ sent' = Req("form.action", t)

\* fetch(form.action, {method: 'POST', ...}): one request leaves for category t
handleRealDjangoSubmission(t) ==
    /\ inflight' = [inflight EXCEPT ![t] = @ + 1]
    /\ sent' = Req("form.action", t)

handleFormSubmission(t) ==
    /\ SetUserDom(setButtonLoadingState(updateUploadState(UserDom, t, "processing"), t))
    /\ handleRealDjangoSubmission(t)

\* submit listener of the form of section t; valid is validateForm's verdict (an
\* invalid form only gets its '.field-error' decorations)
OnSubmit(t, valid) ==
    /\ IF valid
       THEN /\ Sum4(inflight) < MaxInFlight
            /\ handleFormSubmission(t)
       ELSE /\ UNCHANGED userDom
            /\ sent' = NoReq
            /\ UNCHANGED inflight
    /\ shown' = NoNote
    /\ UNCHANGED <<page, authVars, noteVars, logged, selectTimers, resetTimers, dashVars>>

\* the user presses the submit button of section t
SubmitClick(t, valid) ==
    /\ page = "user"
    /\ ~btnDisabled[t]
    /\ OnSubmit(t, valid)

\* Ctrl/Cmd+S: submitActiveForm dispatches 'submit' on the active section's form
SubmitActiveForm(valid) ==
    /\ page = "user"
    /\ LET act == SelectSeq(TypeOrder, LAMBDA t : t \in activeSections)
       IN  /\ Len(act) > 0
           /\ OnSubmit(act[1], valid)

\* (checkAllUploadsCompleted only schedules the closing toast and the completion
\* modal once every category is completed; nothing else reads them)
handleUploadSuccess(t) ==
    /\ selectTimers < MaxTimers
    /\ SetUserDom(updateUploadState(UserDom, t, "completed"))
    /\ shown' = Note("uploaded successfully!", t)
    /\ selectTimers' = selectTimers + 1
    /\ inflight' = [inflight EXCEPT ![t] = @ - 1]
    /\ sent' = NoReq

\* variant: the failure is handled without a toast
handleUploadFailureSilent(t) ==
    /\ SetUserDom(updateUploadState(UserDom, t, "available"))
    /\ shown' = NoNote
    /\ inflight' = [inflight EXCEPT ![t] = @ - 1]
    /\ sent' = NoReq
    /\ UNCHANGED selectTimers

\* variant: the failure is recorded under a fifth status label
handleUploadFailureMarksFailed(t) ==
    /\ SetUserDom(updateUploadState(UserDom, t, "failed"))
    /\ shown' = Note("upload failed. Please try again.", t)
    /\ inflight' = [inflight EXCEPT ![t] = @ - 1]
    /\ sent' = NoReq
    /\ UNCHANGED selectTimers

handleUploadFailure(t) ==
    /\ SetUserDom(updateUploadState(UserDom, t, "available"))
    /\ shown' = Note("upload failed. Please try again.", t)
    /\ inflight' = [inflight EXCEPT ![t] = @ - 1]
    /\ sent' = NoReq
    /\ UNCHANGED selectTimers

\* the promise chain of handleRealDjangoSubmission settles for one request: the
\* .then branch on data.success, or the .catch
UploadResponse(t, outcome) ==
    /\ page = "user"
    /\ inflight[t] > 0
    /\ IF outcome = "success" THEN handleUploadSuccess(t) ELSE handleUploadFailure(t)
    /\ UNCHANGED <<page, authVars, noteVars, logged, resetTimers, dashVars>>

\* the 1500 ms timer of handleUploadSuccess fires
SelectNextTimer ==
    /\ page = "user"
    /\ sent' = NoReq
    /\ selectTimers > 0
    /\ selectTimers' = selectTimers - 1
    /\ SetUserDom(selectNextAvailableUpload(UserDom))
    /\ shown' = NoNote
    /\ UNCHANGED <<page, authVars, noteVars, logged, inflight, resetTimers, dashVars>>

\* window.resetAllUploads()
resetAllUploads ==
    /\ page = "user"
    /\ sent' = NoReq
    /\ SetUserDom(UpdateEach(UserDom, KeysInOrder(uploadStatus),
                             [t \in DOMAIN uploadStatus |-> "available"]))
    /\ shown' = Note("All upload statuses have been reset.", "info")
    /\ UNCHANGED <<page, authVars, noteVars, logged, inflight, selectTimers,
                   resetTimers, dashVars>>

\* the page is reloaded: the script starts over, sessionStorage survives, the
\* requests and timers of the old document are gone
ReloadUserPage ==
    /\ page = "user"
    /\ sent' = NoReq
    /\ SetUserDom(loadUploadStatus(FreshUserDom(sessionStore)))
    /\ inflight' = [t \in Types |-> 0]
    /\ selectTimers' = 0
    /\ shown' = NoNote
    /\ UNCHANGED <<page, authVars, noteVars, logged, resetTimers, dashVars>>

(***************************************************************************)
(* admin-upload-app.js                                                     *)
(***************************************************************************)
\* click listener of a sidebar item
AdminClickItem(t) ==
    /\ page = "admin"
    /\ activeItems' = {t}
    /\ activeSections' = {t}
    /\ UNCHANGED <<page, authVars, noteVars, logged, userVars, btnDisabled, btnText, resetTimers, dashVars, shown, sent>>

\* submit listener: the button shows the loading state and a 30 s timer is set
AdminSubmit(t) ==
    /\ page = "admin"
    /\ ~btnDisabled[t]
    /\ btnDisabled' = [btnDisabled EXCEPT ![t] = TRUE]
    /\ btnText' = [btnText EXCEPT ![t] = "Uploading..."]
    /\ resetTimers' = resetTimers \cup {t}
    /\ UNCHANGED <<page, authVars, noteVars, logged, userVars, activeItems, activeSections, dashVars, shown, sent>>

\* the 30 s timer restores the button
AdminResetTimer(t) ==
    /\ page = "admin"
    /\ t \in resetTimers
    /\ btnDisabled' = [btnDisabled EXCEPT ![t] = FALSE]
    /\ btnText' = [btnText EXCEPT ![t] = getOriginalButtonText(t)]
    /\ resetTimers' = resetTimers \ {t}
    /\ UNCHANGED <<page, authVars, noteVars, logged, userVars, activeItems, activeSections, dashVars, shown, sent>>

(***************************************************************************)
(* dashboard.js                                                            *)
(***************************************************************************)
toLowerCase(c) ==
    CASE c = "T" -> "t"
      [] c = "I" -> "i"
      [] c = "F" -> "f"
      [] OTHER -> c

endsWith(name, suffix) ==
    /\ Len(name) >= Len(suffix)
    /\ SubSeq(name, Len(name) - Len(suffix) + 1, Len(name)) = suffix

validateFileType(name, slot) ==
    LET fileName == [i \in DOMAIN name |-> toLowerCase(name[i])]
    IN  CASE slot = "boundaries" -> endsWith(fileName, <<".", "z", "i", "p">>)
          [] slot = "geotiff" -> \/ endsWith(fileName, <<".", "t", "i", "f">>)
                                 \/ endsWith(fileName, <<".", "t", "i", "f", "f">>)
          [] OTHER -> FALSE

\* variant: one file is enough to enable the buttons
updateButtonStatesEitherFile(files) ==
    LET anyUploaded == files["boundaries"] # Null \/ files["geotiff"] # Null
    IN  [validateBtn |-> ~anyUploaded, uploadBtn |-> ~anyUploaded]

\* the disabled property updateButtonStates gives both buttons
updateButtonStates(files) ==
    LET bothUploaded == files["boundaries"] # Null /\ files["geotiff"] # Null
    IN  [validateBtn |-> ~bothUploaded, uploadBtn |-> ~bothUploaded]

updateProgress(percentage, message) == progress' = [pct |-> percentage, msg |-> message]

showAlert(message, type) == shown' = Note(message, type)

\* the statistic fields show the placeholders '-'
updateStatistics == stats' = "-"

\* the statistic fields show the numbers of status.file_statistics
updateStatisticsFromStatus == stats' = "status"

\* the processing time and the processing summary are written
updateFinalStatistics == summary' = "final"

PendingRequests == pendingUploads + pendingMerges

\* variant: a file of the wrong type is not recorded
handleFileSelectRejectsInvalid(slot, file) ==
    /\ page = "dashboard"
    /\ logged' = NoLog
    /\ sent' = NoReq
    /\ IF validateFileType(file, slot)
       THEN /\ uploadedFiles' = [uploadedFiles EXCEPT ![slot] = file]
            /\ showAlert("uploaded successfully!", slot)
       ELSE /\ UNCHANGED uploadedFiles
            /\ showAlert("Invalid file type", slot)
    /\ buttonsDisabled' = updateButtonStates(uploadedFiles')
    /\ UNCHANGED <<page, authVars, noteVars, userVars, domVars, resetTimers, stats, summary, currentProcessId,
                   progressInterval, startTime, intervals, activeTab, progress,
                   pendingUploads, pendingMerges, pendingPolls>>

\* 'change' of a file input, or a drop on its upload area
handleFileSelect(slot, file) ==
    /\ page = "dashboard"
    /\ logged' = NoLog
    /\ sent' = NoReq
    /\ uploadedFiles' = [uploadedFiles EXCEPT ![slot] = file]
    /\ IF validateFileType(file, slot)
       THEN showAlert("uploaded successfully!", slot)
       ELSE showAlert("Invalid file type", slot)
    /\ buttonsDisabled' = updateButtonStates(uploadedFiles')
    /\ UNCHANGED <<page, authVars, noteVars, userVars, domVars, resetTimers, stats, summary, currentProcessId,
                   progressInterval, startTime, intervals, activeTab, progress,
                   pendingUploads, pendingMerges, pendingPolls>>

validateFiles ==
    /\ page = "dashboard"
    /\ logged' = NoLog
    /\ sent' = NoReq
    /\ IF uploadedFiles["boundaries"] = Null \/ uploadedFiles["geotiff"] = Null
       THEN showAlert("Please upload both files first", "error")
       ELSE showAlert("Files validated successfully! Ready to process.", "success")
    /\ UNCHANGED <<page, authVars, noteVars, userVars, domVars, resetTimers, dashVars>>

\* the tab content that carries 'active' after switchTab
switchTab(tabName) == activeTab' = tabName

\* a click on a tab, or Alt+1/2/3
TabClick(tabName) ==
    /\ page = "dashboard"
    /\ logged' = NoLog
    /\ sent' = NoReq
    /\ switchTab(tabName)
    /\ shown' = NoNote
    /\ UNCHANGED <<page, authVars, noteVars, userVars, domVars, resetTimers, stats, summary, uploadedFiles,
                   currentProcessId, progressInterval, startTime, intervals,
                   buttonsDisabled, progress, pendingUploads, pendingMerges,
                   pendingPolls>>

\* variant: only the boundaries file is required
handleFormSubmitBoundariesOnly ==
    /\ page = "dashboard"
    /\ logged' = NoLog
    /\ IF uploadedFiles["boundaries"] = Null
       THEN /\ showAlert("Please upload both files", "error")
            /\ sent' = NoReq
            /\ UNCHANGED <<activeTab, startTime, progress, pendingUploads>>
       ELSE /\ PendingRequests < MaxPending
            /\ switchTab("process")
            /\ startTime' = "set"
            /\ updateProgress(25, "Uploading files...")
            /\ pendingUploads' = pendingUploads + 1
            /\ sent' = UploadReq(uploadedFiles)
            /\ shown' = NoNote
    /\ UNCHANGED <<page, authVars, noteVars, userVars, domVars, resetTimers, stats, summary, uploadedFiles,
                   currentProcessId, progressInterval, intervals, buttonsDisabled,
                   pendingMerges, pendingPolls>>

\* 'submit' of uploadForm, up to the await of the upload fetch
handleFormSubmit ==
    /\ page = "dashboard"
    /\ logged' = NoLog
    /\ IF uploadedFiles["boundaries"] = Null \/ uploadedFiles["geotiff"] = Null
       THEN /\ showAlert("Please upload both files", "error")
            /\ sent' = NoReq
            /\ UNCHANGED <<activeTab, startTime, progress, pendingUploads>>
       ELSE /\ PendingRequests < MaxPending
            /\ switchTab("process")
            /\ startTime' = "set"
            /\ updateProgress(25, "Uploading files...")
            /\ pendingUploads' = pendingUploads + 1
            /\ sent' = UploadReq(uploadedFiles)
            /\ shown' = NoNote
    /\ UNCHANGED <<page, authVars, noteVars, userVars, domVars, resetTimers, stats, summary, uploadedFiles,
                   currentProcessId, progressInterval, intervals, buttonsDisabled,
                   pendingMerges, pendingPolls>>

\* variant: the FormData is built from the id held before the upload response
startProcessingStaleId ==
    /\ pendingMerges' = pendingMerges + 1
    /\ sent' = Req("/geospatial/api/start_merge/", currentProcessId)

\* startProcessing up to its await: the start_merge request carries the value
\* currentProcessId has when the FormData is built
startProcessing ==
    /\ pendingMerges' = pendingMerges + 1
    /\ sent' = Req("/geospatial/api/start_merge/", currentProcessId')

\* the rest of handleFormSubmit: the upload fetch settled
UploadSettled(outcome, pid) ==
    /\ page = "dashboard"
    /\ pendingUploads > 0
    /\ pendingUploads' = pendingUploads - 1
    /\ IF outcome = "success"
       THEN /\ currentProcessId' = pid
            /\ logged' = NoLog
            /\ updateProgress(50, "Files uploaded successfully")
            /\ startProcessing
            /\ shown' = NoNote
       ELSE /\ logged' = "Upload error:"
            /\ showAlert("Upload failed", "error")
            /\ updateProgress(0, "Upload failed")
            /\ sent' = NoReq
            /\ UNCHANGED <<currentProcessId, pendingMerges>>
    /\ UNCHANGED <<page, authVars, noteVars, userVars, domVars, resetTimers, stats, summary, uploadedFiles,
                   progressInterval, startTime, intervals, buttonsDisabled, activeTab,
                   pendingPolls>>

\* progressInterval = setInterval(...): the id held so far is overwritten, so a
\* timer still running under it is orphaned; the new id is the current one
startProgressMonitoring ==
    /\ progressInterval' = "current"
    /\ intervals' = {"current"} \cup {"orphan" : i \in intervals}

\* the rest of startProcessing: the start_merge fetch settled
MergeSettled(outcome) ==
    /\ page = "dashboard"
    /\ pendingMerges > 0
    /\ pendingMerges' = pendingMerges - 1
    /\ sent' = NoReq
    /\ IF outcome = "success"
       THEN /\ updateProgress(75, "Processing started...")
            /\ startProgressMonitoring
            /\ shown' = NoNote
            /\ logged' = NoLog
       ELSE /\ logged' = "Processing error:"
            /\ showAlert("Processing failed", "error")
            /\ UNCHANGED <<progress, progressInterval, intervals>>
    /\ UNCHANGED <<page, authVars, noteVars, userVars, domVars, resetTimers, stats, summary, uploadedFiles,
                   currentProcessId, startTime, buttonsDisabled, activeTab,
                   pendingUploads, pendingPolls>>

\* a running interval timer fires: the callback sends a status request
IntervalTick(id) ==
    /\ page = "dashboard"
    /\ logged' = NoLog
    /\ id \in intervals
    /\ pendingPolls < MaxPolls
    /\ pendingPolls' = pendingPolls + 1
    /\ sent' = Req("/geospatial/api/status/", currentProcessId)
    /\ shown' = NoNote
    /\ UNCHANGED <<page, authVars, noteVars, userVars, domVars, resetTimers, stats, summary, uploadedFiles,
                   currentProcessId, progressInterval, startTime, intervals,
                   buttonsDisabled, activeTab, progress, pendingUploads, pendingMerges>>

\* variant: clearing a timer has no effect
clearIntervalNoEffect(running) == running

\* clearInterval(progressInterval)
clearInterval(running) == running \ {progressInterval}

\* variant: status.error is not looked at
StatusHandledIgnoresError(status) ==
    /\ page = "dashboard"
    /\ sent' = NoReq
    /\ pendingPolls > 0
    /\ pendingPolls' = pendingPolls - 1
    /\ IF status.file_statistics THEN updateStatisticsFromStatus ELSE UNCHANGED stats
    /\ IF status.completed
       THEN /\ intervals' = clearInterval(intervals)
            /\ updateProgress(100, "Processing completed successfully!")
            /\ showAlert("Processing completed successfully!", "success")
            /\ updateFinalStatistics
            /\ switchTab("statistics")
            /\ logged' = "Progress check error:"
       ELSE /\ updateProgress(status.progress, "Processing...")
            /\ shown' = NoNote
            /\ logged' = NoLog
            /\ UNCHANGED <<intervals, activeTab, summary>>
    /\ UNCHANGED <<page, authVars, noteVars, userVars, domVars, resetTimers, uploadedFiles,
                   currentProcessId, progressInterval, startTime, buttonsDisabled,
                   pendingUploads, pendingMerges>>

\* the rest of the interval callback: a status response was parsed
StatusHandled(status) ==
    /\ page = "dashboard"
    /\ sent' = NoReq
    /\ pendingPolls > 0
    /\ pendingPolls' = pendingPolls - 1
    /\ IF status.file_statistics THEN updateStatisticsFromStatus ELSE UNCHANGED stats
    /\ IF status.completed
       THEN /\ intervals' = clearInterval(intervals)
            /\ IF status.error
               THEN /\ updateProgress(status.progress, "Processing...")
                    /\ showAlert("Processing failed", "error")
                    /\ logged' = NoLog
                    /\ UNCHANGED <<activeTab, summary>>
               ELSE \* switchTab marks the tab content and then throws on
                    \* event.target (no event is being dispatched in a timer
                    \* callback); the catch of the callback logs the TypeError
                    /\ updateProgress(100, "Processing completed successfully!")
                    /\ showAlert("Processing completed successfully!", "success")
                    /\ updateFinalStatistics
                    /\ switchTab("statistics")
                    /\ logged' = "Progress check error:"
       ELSE /\ updateProgress(status.progress, "Processing...")
            /\ shown' = NoNote
            /\ logged' = NoLog
            /\ UNCHANGED <<intervals, activeTab, summary>>
    /\ UNCHANGED <<page, authVars, noteVars, userVars, domVars, resetTimers, uploadedFiles,
                   currentProcessId, progressInterval, startTime, buttonsDisabled,
                   pendingUploads, pendingMerges>>

\* variant: the catch also stops the polling
StatusFailedStopsPolling ==
    /\ page = "dashboard"
    /\ logged' = "Progress check error:"
    /\ sent' = NoReq
    /\ pendingPolls > 0
    /\ pendingPolls' = pendingPolls - 1
    /\ shown' = NoNote
    /\ intervals' = clearInterval(intervals)
    /\ UNCHANGED <<page, authVars, noteVars, userVars, domVars, resetTimers, stats, summary, uploadedFiles,
                   currentProcessId, progressInterval, startTime,
                   buttonsDisabled, activeTab, progress, pendingUploads, pendingMerges>>

\* the catch of the interval callback: the status fetch was rejected or its
\* body did not parse; console.error only
StatusFailed ==
    /\ page = "dashboard"
    /\ logged' = "Progress check error:"
    /\ sent' = NoReq
    /\ pendingPolls > 0
    /\ pendingPolls' = pendingPolls - 1
    /\ shown' = NoNote
    /\ UNCHANGED <<page, authVars, noteVars, userVars, domVars, resetTimers, stats, summary, uploadedFiles,
                   currentProcessId, progressInterval, startTime, intervals,
                   buttonsDisabled, activeTab, progress, pendingUploads, pendingMerges>>

\* variant: the process id survives the reset
resetDashboardKeepsProcessId ==
    /\ page = "dashboard"
    /\ logged' = NoLog
    /\ sent' = NoReq
    /\ uploadedFiles' = [s \in Slots |-> Null]
    /\ startTime' = "null"
    /\ intervals' = IF progressInterval # "null" THEN clearInterval(intervals) ELSE intervals
    /\ buttonsDisabled' = updateButtonStates(uploadedFiles')
    /\ updateStatistics
    /\ switchTab("upload")
    /\ showAlert("Dashboard reset successfully", "info")
    /\ UNCHANGED <<page, authVars, noteVars, userVars, domVars, resetTimers, summary,
                   currentProcessId, progressInterval, progress, pendingUploads,
                   pendingMerges, pendingPolls>>

\* the Reset button, or Ctrl+R
resetDashboard ==
    /\ page = "dashboard"
    /\ logged' = NoLog
    /\ sent' = NoReq
    /\ uploadedFiles' = [s \in Slots |-> Null]
    /\ currentProcessId' = "null"
    /\ startTime' = "null"
    /\ intervals' = IF progressInterval # "null" THEN clearInterval(intervals) ELSE intervals
    /\ buttonsDisabled' = updateButtonStates(uploadedFiles')
    /\ updateStatistics
    /\ switchTab("upload")
    /\ showAlert("Dashboard reset successfully", "info")
    /\ UNCHANGED <<page, authVars, noteVars, userVars, domVars, resetTimers, summary, progressInterval,
                   progress, pendingUploads, pendingMerges, pendingPolls>>

\* the 5 s auto-refresh timer fires
AutoRefresh ==
    /\ page = "dashboard"
    /\ logged' = NoLog
    /\ sent' = NoReq
    /\ shown' = NoNote
    /\ IF currentProcessId # "null" /\ progressInterval # "null"
       THEN updateStatistics
       ELSE UNCHANGED stats
    /\ UNCHANGED <<page, authVars, noteVars, userVars, domVars, resetTimers, summary, uploadedFiles,
                   currentProcessId, progressInterval, startTime, intervals,
                   buttonsDisabled, activeTab, progress, pendingUploads, pendingMerges,
                   pendingPolls>>

(***************************************************************************)
(* auth.js                                                                 *)
(***************************************************************************)
\* option values of the position select; "" is the empty choice
PositionValues == {"", "Doctor", "Other", "other"}

\* variant: any non-empty choice shows the field
toggleCustomFieldNonEmpty(value) == IF value # "" THEN "block" ELSE "none"

\* the style.display toggleCustomField gives the custom-position field
toggleCustomField(value) == IF value = "Other" THEN "block" ELSE "none"

\* 'change' of the position select
ChangePosition(value) ==
    /\ page = "auth"
    /\ value # positionValue
    /\ positionValue' = value
    /\ customDisplay' = toggleCustomField(positionValue')
    /\ UNCHANGED <<page, noteVars, logged, userVars, domVars, resetTimers, dashVars, shown, sent>>

(***************************************************************************)
(* Toast and alert elements: showToast (user page) and showAlert           *)
(* (dashboard).  Each element is followed from its creation to the last of *)
(* its timers; the handlers above only record the latest one in 'shown'.   *)
(***************************************************************************)
\* an alert: appended to alertContainer, one 5000 ms removal timer pending
NewAlert == [attached |-> TRUE, timer |-> "remove"]

\* a toast: appended to document.body, the 4000 ms timer pending
NewToast == [attached |-> TRUE, timer |-> "fade"]

\* variant: removeChild is called without looking at parentNode
removeUnguarded(el) ==
    [el |-> [attached |-> FALSE, timer |-> "done"], threw |-> ~el.attached]

\* the removal callback: if (el.parentNode) el.parentNode.removeChild(el)
removeIfAttached(el) ==
    [el |-> IF el.attached
            THEN [attached |-> FALSE, timer |-> "done"]
            ELSE [el EXCEPT !.timer = "done"],
     threw |-> FALSE]

\* showAlert called by any handler of the dashboard but resetDashboard
AlertShown ==
    /\ page = "dashboard"
    /\ Len(elements) < MaxNotes
    /\ elements' = Append(elements, NewAlert)
    /\ UNCHANGED <<thrown, handlerVars>>

\* resetDashboard: alertContainer.innerHTML = '' detaches every alert, then
\* showAlert('Dashboard reset successfully') appends a new one
AlertContainerEmptied ==
    /\ page = "dashboard"
    /\ Len(elements) < MaxNotes
    /\ elements' = Append([k \in DOMAIN elements |-> [elements[k] EXCEPT !.attached = FALSE]],
                          NewAlert)
    /\ UNCHANGED <<thrown, handlerVars>>

\* the 5000 ms timer of alert k fires
AlertTimeout(k) ==
    /\ page = "dashboard"
    /\ k \in DOMAIN elements
    /\ elements[k].timer = "remove"
    /\ elements' = [elements EXCEPT ![k] = removeIfAttached(elements[k]).el]
    /\ thrown' = (thrown \/ removeIfAttached(elements[k]).threw)
    /\ UNCHANGED handlerVars

\* showToast called by any handler of the user page
ToastShown ==
    /\ page = "user"
    /\ Len(elements) < MaxNotes
    /\ elements' = Append(elements, NewToast)
    /\ UNCHANGED <<thrown, handlerVars>>

\* the 4000 ms timer of toast k fires: opacity 0, and the 300 ms timer is set
ToastFadeTimeout(k) ==
    /\ page = "user"
    /\ k \in DOMAIN elements
    /\ elements[k].timer = "fade"
    /\ elements' = [elements EXCEPT ![k].timer = "remove"]
    /\ UNCHANGED <<thrown, handlerVars>>

\* the 300 ms timer of toast k fires
ToastRemoveTimeout(k) ==
    /\ page = "user"
    /\ k \in DOMAIN elements
    /\ elements[k].timer = "remove"
    /\ elements' = [elements EXCEPT ![k] = removeIfAttached(elements[k]).el]
    /\ thrown' = (thrown \/ removeIfAttached(elements[k]).threw)
    /\ UNCHANGED handlerVars

(***************************************************************************)
(* The tab                                                                 *)
(***************************************************************************)
Init ==
    /\ page \in Pages
    /\ positionValue \in IF page = "auth" THEN PositionValues ELSE {""}
    /\ customDisplay = toggleCustomField(positionValue)
    /\ uploadStatus = FreshUserDom(NoItem).uploadStatus
    /\ statusClass = FreshUserDom(NoItem).statusClass
    /\ activeItems = FreshUserDom(NoItem).activeItems
    /\ activeSections = FreshUserDom(NoItem).activeSections
    /\ inputsDisabled = FreshUserDom(NoItem).inputsDisabled
    /\ btnDisabled = FreshUserDom(NoItem).btnDisabled
    /\ btnText = FreshUserDom(NoItem).btnText
    /\ sessionStore = NoItem
    /\ inflight = [t \in Types |-> 0]
    /\ selectTimers = 0
    /\ resetTimers = {}
    /\ uploadedFiles = [s \in Slots |-> Null]
    /\ currentProcessId = "null"
    /\ progressInterval = "null"
    /\ startTime = "null"
    /\ intervals = {}
    /\ buttonsDisabled = updateButtonStates([s \in Slots |-> Null])
    /\ activeTab = "upload"
    /\ progress = [pct |-> 0, msg |-> "template"]
    /\ pendingUploads = 0
    /\ pendingMerges = 0
    /\ pendingPolls = 0
    /\ stats = "-"
    /\ summary = "template"
    /\ logged = NoLog
    /\ elements = IF page = "dashboard" THEN <<NewAlert>> ELSE << >>
    /\ thrown = FALSE
    /\ shown = IF page = "dashboard"
               THEN Note("Admin dashboard initialized successfully!", "info")
               ELSE NoNote
    /\ sent = NoReq

Next ==
    \/ \E t \in Types : ClickItem(t)
    \/ \E t \in Types, valid \in BOOLEAN : SubmitClick(t, valid)
    \/ \E valid \in BOOLEAN : SubmitActiveForm(valid)
    \/ \E t \in Types, o \in Outcomes : UploadResponse(t, o)
    \/ SelectNextTimer
    \/ resetAllUploads
    \/ ReloadUserPage
    \/ \E t \in Types : AdminClickItem(t)
    \/ \E t \in Types : AdminSubmit(t)
    \/ \E t \in Types : AdminResetTimer(t)
    \/ \E slot \in Slots, file \in FileNames : handleFileSelect(slot, file)
    \/ validateFiles
    \/ \E tab \in Tabs : TabClick(tab)
    \/ handleFormSubmit
    \/ \E o \in Outcomes, pid \in PIDs : UploadSettled(o, pid)
    \/ \E o \in Outcomes : MergeSettled(o)
    \/ \E id \in IntervalIds : IntervalTick(id)
    \/ \E status \in StatusBodies : StatusHandled(status)
    \/ StatusFailed
    \/ resetDashboard
    \/ AutoRefresh
    \/ \E value \in PositionValues : ChangePosition(value)

Spec == Init /\ [][Next]_vars

(***************************************************************************)
(* The dashboard with one form submission and no reset.  The timer fires   *)
(* and every status request is answered (weak fairness); the server keeps  *)
(* being able to answer with 'completed' and eventually does (strong       *)
(* fairness on the handling of such an answer).                            *)
(***************************************************************************)
InitDashboard == Init /\ page = "dashboard"

\* the form is submitted while no submission has been made yet
SubmitOnce == startTime = "null" /\ handleFormSubmit

PollAnswered == StatusFailed \/ \E status \in StatusBodies : StatusHandled(status)

CompletedAnswered == \E status \in StatusBodies : status.completed /\ StatusHandled(status)

NextOne ==
    \/ \E slot \in Slots, file \in FileNames : handleFileSelect(slot, file)
    \/ validateFiles
    \/ \E tab \in Tabs : TabClick(tab)
    \/ SubmitOnce
    \/ \E o \in Outcomes, pid \in PIDs : UploadSettled(o, pid)
    \/ \E o \in Outcomes : MergeSettled(o)
    \/ \E id \in IntervalIds : IntervalTick(id)
    \/ \E status \in StatusBodies : StatusHandled(status)
    \/ StatusFailed
    \/ AutoRefresh

SpecOne ==
    /\ InitDashboard
    /\ [][NextOne]_vars
    /\ WF_vars(\E id \in IntervalIds : IntervalTick(id))
    /\ WF_vars(PollAnswered)
    /\ SF_vars(CompletedAnswered)

(***************************************************************************)
(* The toast and alert elements of a page.  A pending timeout fires (weak  *)
(* fairness per element and timer).                                        *)
(***************************************************************************)
InitNotes == Init /\ page \in {"user", "dashboard"}

NextNotes ==
    \/ AlertShown
    \/ AlertContainerEmptied
    \/ \E k \in 1..MaxNotes : AlertTimeout(k)
    \/ ToastShown
    \/ \E k \in 1..MaxNotes : ToastFadeTimeout(k)
    \/ \E k \in 1..MaxNotes : ToastRemoveTimeout(k)

SpecNotes ==
    /\ InitNotes
    /\ [][NextNotes]_vars
    /\ \A k \in 1..MaxNotes : /\ WF_vars(AlertTimeout(k))
                               /\ WF_vars(ToastFadeTimeout(k))
                               /\ WF_vars(ToastRemoveTimeout(k))

(***************************************************************************)
(* Properties                                                              *)
(***************************************************************************)
\* The step formulas below name the steps of one handler.  Each begins with a
\* conjunct the handler implies (the request count it moves), so that the
\* handler itself is evaluated only on the steps that can be its own.
Switchable(t) == uploadStatus[t] # "completed" /\ uploadStatus[t] # "disabled"

ValidSubmit(t) ==
    /\ page = "user"
    /\ inflight'[t] > inflight[t]
    /\ OnSubmit(t, TRUE)

UploadSucceeded(t) ==
    /\ inflight'[t] < inflight[t]
    /\ UploadResponse(t, "success")

UploadFailed(t) ==
    /\ inflight'[t] < inflight[t]
    /\ UploadResponse(t, "failure") \/ UploadResponse(t, "rejected")

DashUploadSucceeded(pid) ==
    /\ pendingUploads' < pendingUploads
    /\ UploadSettled("success", pid)

DashUploadFailed ==
    /\ pendingUploads' < pendingUploads
    /\ \E pid \in PIDs : UploadSettled("failure", pid) \/ UploadSettled("rejected", pid)

MergeSucceeded ==
    /\ pendingMerges' < pendingMerges
    /\ MergeSettled("success")

MergeFailed ==
    /\ pendingMerges' < pendingMerges
    /\ MergeSettled("failure") \/ MergeSettled("rejected")

PollFailed ==
    /\ pendingPolls' < pendingPolls
    /\ StatusFailed

CompletedObserved ==
    /\ pendingPolls' < pendingPolls
    /\ \E status \in StatusBodies : status.completed /\ StatusHandled(status)

ResetStep ==
    /\ shown' = Note("All upload statuses have been reset.", "info")
    /\ resetAllUploads

ResetDashStep ==
    /\ shown' = Note("Dashboard reset successfully", "info")
    /\ resetDashboard

FileSelectStep ==
    /\ shown'.msg \in {"uploaded successfully!", "Invalid file type"}
    /\ \E slot \in Slots, file \in FileNames : handleFileSelect(slot, file)

Done100 == [pct |-> 100, msg |-> "Processing completed successfully!"]

BothFilesRecorded(files) == files["boundaries"] # Null /\ files["geotiff"] # Null

\* C1: a click on a sidebar item that is neither completed nor disabled (any
\* item on the admin page) leaves that item as the only active item and its
\* section as the only active section; in every state reached by a step at most
\* one item and one section are active and they are of the same upload type.
C1_ClickActivatesOnlyThat ==
    [][/\ \A t \in Types :
            ((Switchable(t) /\ ClickItem(t)) \/ AdminClickItem(t))
                => (activeItems' = {t} /\ activeSections' = {t})
       /\ Cardinality(activeItems') <= 1
       /\ activeSections' = activeItems']_vars

\* no status was ever updated, so only a click can have moved the active item
C1_Witness ==
    /\ page = "user"
    /\ sessionStore = NoItem
    /\ activeItems = {"temperature"}
    /\ activeSections = {"temperature"}

\* C2: a valid submit for category T sets T to 'processing', disables T's
\* button and sends exactly one POST for T; handling the response sets T to
\* 'completed' when success is truthy and to 'available' when it is falsy or
\* the request was rejected or unparseable.
C2_SubmitThenBranch ==
    [][\A t \in Types :
          /\ ValidSubmit(t)
                => /\ uploadStatus'[t] = "processing"
                   /\ btnDisabled'[t]
                   /\ inflight' = [inflight EXCEPT ![t] = @ + 1]
                   /\ sent' = Req("form.action", t)
          /\ UploadSucceeded(t) => uploadStatus'[t] = "completed"
          /\ UploadFailed(t) => uploadStatus'[t] = "available"]_vars

\* a POST is out for a category whose button shows the loading state
C2_Witness ==
    /\ page = "user"
    /\ \E t \in Types : /\ uploadStatus[t] = "processing"
                        /\ inflight[t] = 1
                        /\ btnDisabled[t]
                        /\ sent = Req("form.action", t)

\* C3 as stated: every failed request, the status poll included, ends with a
\* toast or alert on screen.
C3_EveryFailureAlerts ==
    [][(\/ \E t \in Types : UploadFailed(t)
        \/ DashUploadFailed
        \/ MergeFailed
        \/ PollFailed) => shown' # NoNote]_vars

\* C3: a failed user upload POST, dashboard upload or start_merge ends with its
\* toast or alert on screen; a rejected or unparseable status poll is only
\* logged and shows nothing.
C3_FailureAlertsExceptPoll ==
    [][/\ \A t \in Types :
            UploadFailed(t) => shown' = Note("upload failed. Please try again.", t)
       /\ DashUploadFailed => shown' = Note("Upload failed", "error")
       /\ MergeFailed => shown' = Note("Processing failed", "error")
       /\ PollFailed => shown' = NoNote]_vars

\* the alert of a failed dashboard upload is on screen
C3_Witness ==
    /\ page = "dashboard"
    /\ shown = Note("Upload failed", "error")
    /\ progress = [pct |-> 0, msg |-> "Upload failed"]

C5_CompletedStopsPolling ==
    [][CompletedObserved => intervals' = {}]_vars

\* C6: uploadStatus is a mapping over exactly the four categories and each of
\* its values is one of the four status strings.
C6_StatusMapping ==
    /\ DOMAIN uploadStatus = Types
    /\ \A t \in Types : uploadStatus[t] \in Status

\* a mapping with a completed and a processing category has been restored by a
\* page load: nothing is in flight and the button of the processing category is
\* enabled again
C6_Witness ==
    /\ page = "user"
    /\ uploadStatus["health-center"] = "completed"
    /\ uploadStatus["hmis-api"] = "processing"
    /\ Sum4(inflight) = 0
    /\ ~btnDisabled["hmis-api"]

\* C7: once updateUploadState has run, sessionStorage holds the serialization
\* of the whole mapping as it is now (before that the mapping is the default
\* one and nothing is stored), parsing what is stored gives the mapping back,
\* and loadUploadStatus on a freshly loaded page restores the mapping held now.
C7_SaveLoadIdentity ==
    /\ sessionStore.set => /\ sessionStore.text = Stringify(uploadStatus)
                           /\ Parse(sessionStore.text) = uploadStatus
    /\ ~sessionStore.set => uploadStatus = DefaultUploadStatus
    /\ loadUploadStatus(FreshUserDom(sessionStore)).uploadStatus = uploadStatus

\* a saved mapping that is not the default one has been loaded again (the
\* processing category has no request and an enabled button)
C7_Witness ==
    /\ page = "user"
    /\ sessionStore.set
    /\ sessionStore.text = Stringify(uploadStatus)
    /\ uploadStatus["temperature"] = "processing"
    /\ inflight["temperature"] = 0
    /\ ~btnDisabled["temperature"]
    /\ activeItems = {"temperature"}

\* C8: a user upload POST is sent only by a valid submit event, a dashboard
\* upload only by handleFormSubmit, a start_merge only by the handling of a
\* successful upload response, each time exactly one; the handling of a failed
\* or rejected request sends nothing.
C8_NoRetry ==
    [][/\ \A t \in Types :
            inflight'[t] > inflight[t]
                => (inflight'[t] = inflight[t] + 1 /\ ValidSubmit(t))
       /\ pendingUploads' > pendingUploads
                => (pendingUploads' = pendingUploads + 1 /\ handleFormSubmit)
       /\ pendingMerges' > pendingMerges
                => /\ pendingMerges' = pendingMerges + 1
                   /\ \E pid \in PIDs : DashUploadSucceeded(pid)
       /\ (DashUploadFailed \/ MergeFailed \/ \E t \in Types : UploadFailed(t))
                => sent' = NoReq]_vars

\* a failed POST has been handled and no request is out
C8_Witness ==
    /\ page = "user"
    /\ shown = Note("upload failed. Please try again.", "health-center")
    /\ uploadStatus["health-center"] = "available"
    /\ Sum4(inflight) = 0
    /\ sent = NoReq

UserFormUsable(t) ==
    /\ uploadStatus'[t] = "available"
    /\ ~inputsDisabled'[t]
    /\ ~btnDisabled'[t]
    /\ btnText'[t] = getOriginalButtonText(t)

C10_BlockedClickOnlyToasts ==
    [][\A t \in Types :
          (~Switchable(t) /\ ClickItem(t))
              => /\ UNCHANGED <<activeItems, activeSections, uploadStatus>>
                 /\ UNCHANGED <<statusClass, inputsDisabled, btnDisabled, btnText,
                                sessionStore, inflight, selectTimers>>
                 /\ sent' = NoReq
                 /\ shown' = IF uploadStatus[t] = "completed"
                             THEN Note("This upload has already been completed!", "info")
                             ELSE Note("This upload section is currently disabled.",
                                       "warning")]_vars

\* the toast of a click on a completed item is on screen, another item is active
C10_Witness ==
    /\ page = "user"
    /\ shown = Note("This upload has already been completed!", "info")
    /\ \E t \in Types : uploadStatus[t] = "completed" /\ t \notin activeItems

\* C11: on the registration form the custom-position field is displayed
\* ('block') exactly when the value of the position select is "Other", and is
\* hidden ('none') otherwise, after the page load and after every change.
C11_CustomFieldFollowsOther ==
    page = "auth" => /\ customDisplay \in {"block", "none"}
                     /\ customDisplay = "block" <=> positionValue = "Other"

\* a choice that differs from "Other" only in case leaves the field hidden
C11_Witness ==
    /\ page = "auth"
    /\ positionValue = "other"
    /\ customDisplay = "none"

\* C12 as stated: a category whose status is 'completed' keeps that status in
\* every step except a run of resetAllUploads, whatever clicks, submit events
\* (Ctrl/Cmd+S included) and late responses occur.
C12_CompletedIsFinal ==
    [][\A t \in Types :
          (uploadStatus[t] = "completed" /\ uploadStatus'[t] # "completed") => ResetStep]_vars

\* C13 as stated: no category ever has more than one upload POST in flight.
C13_OneRequestPerCategory ==
    \A t \in Types : inflight[t] <= 1

\* C14 as stated: a category whose status is 'processing' has an upload POST
\* in flight (whose response will end the 'processing' status).
C14_ProcessingHasRequest ==
    \A t \in Types : uploadStatus[t] = "processing" => inflight[t] > 0

\* C15 as stated: at most one polling timer runs, and a timer that runs is the
\* one whose id progressInterval holds (so clearInterval(progressInterval)
\* stops all polling).
C15_SingleTimer ==
    /\ Cardinality(intervals) <= 1
    /\ intervals \subseteq {progressInterval}

\* C16 as stated, for one submission and no reset (SpecOne): the polling timer
\* is started at most once and only the completion handling clears it, so a
\* response with 'completed' is handled at most once exactly when every such
\* handling finds the timer still running.
C16_CompletionHandledOnce ==
    [][CompletedObserved => progressInterval \in intervals]_vars

\* C17 as stated: while the display shows 100 / 'Processing completed
\* successfully!' and no timer runs (so every unanswered status request was
\* sent before that completion was handled), handling an answer does not put
\* the displayed percentage below 100.
C17_ProgressStaysComplete ==
    [][(progress = Done100 /\ intervals = {} /\ pendingPolls' < pendingPolls)
            => progress'.pct >= 100]_vars

\* C18: a failed status poll only logs: it shows no alert and leaves the
\* timers, progressInterval and the displayed progress as they were (so the
\* next tick polls again); a running timer stops only in the handling of a
\* response with 'completed' or in resetDashboard, and every tick sends a
\* status request for the current process id.
C18_FailedPollOnlyLogged ==
    [][/\ PollFailed => /\ logged' = "Progress check error:"
                        /\ shown' = NoNote
                        /\ sent' = NoReq
                        /\ UNCHANGED <<intervals, progressInterval, progress, activeTab, stats>>
       /\ ~(intervals \subseteq intervals') => (CompletedObserved \/ ResetDashStep)
       /\ pendingPolls' > pendingPolls
            => (intervals # {} /\ sent' = Req("/geospatial/api/status/", currentProcessId))]_vars

\* a poll has failed before any status was handled: the error is logged, the
\* display still shows the start of processing and the timer runs
C18_Witness ==
    /\ page = "dashboard"
    /\ logged = "Progress check error:"
    /\ shown = NoNote
    /\ progress = [pct |-> 75, msg |-> "Processing started..."]
    /\ intervals = {"current"}

\* C19, for one submission and no reset (SpecOne): once the polling timer runs
\* it is eventually cleared for good (no further tick, so finitely many status
\* requests), given that an answer with 'completed' eventually is handled; and
\* nothing but the handling of such an answer stops the timer.
C19_PollingTerminates ==
    /\ (intervals # {}) ~> [](intervals = {})
    /\ [][(intervals # {} /\ intervals' # intervals) => CompletedObserved]_vars

\* polling has run and has been stopped by a completed answer
C19_Witness ==
    /\ page = "dashboard"
    /\ progressInterval = "current"
    /\ intervals = {}
    /\ progress = Done100
    /\ pendingPolls = 0

\* C20 as stated: after the completion has been handled (display at 100,
\* no timer running) the statistic fields filled from a status response are
\* not reset by the auto-refresh timer.
C20_StatsSurviveRefresh ==
    [][(progress = Done100 /\ intervals = {} /\ stats = "status" /\ AutoRefresh)
            => stats' = "status"]_vars

\* C21: whatever the state resetDashboard is called in, after it both
\* uploadedFiles entries are null, currentProcessId and startTime are null,
\* both buttons are disabled, and the timer progressInterval refers to is no
\* longer running (a timer that is not running sends no status request).
C21_ResetClearsState ==
    [][ResetDashStep =>
            /\ uploadedFiles' = [s \in Slots |-> Null]
            /\ currentProcessId' = "null"
            /\ startTime' = "null"
            /\ buttonsDisabled' = [validateBtn |-> TRUE, uploadBtn |-> TRUE]
            /\ progressInterval' \notin intervals']_vars

\* the reset came while the polling timer ran and a status request was unanswered
C21_Witness ==
    /\ page = "dashboard"
    /\ shown = Note("Dashboard reset successfully", "info")
    /\ progressInterval = "current"
    /\ intervals = {}
    /\ pendingPolls > 0
    /\ uploadedFiles = [s \in Slots |-> Null]
    /\ currentProcessId = "null"
    /\ buttonsDisabled.uploadBtn

\* C22 as stated: when resetDashboard was the most recent handler (its alert
\* is the one on display), every unanswered request was issued before the
\* reset; handling the answer to one changes neither the progress display nor
\* the statistic fields, sets no currentProcessId and starts no timer.
C22_LateResponseIgnored ==
    [][(/\ shown = Note("Dashboard reset successfully", "info")
        /\ \/ pendingUploads' < pendingUploads
           \/ pendingMerges' < pendingMerges
           \/ pendingPolls' < pendingPolls)
            => UNCHANGED <<progress, stats, currentProcessId, intervals>>]_vars

\* C23: after every file selection or drop and after every reset, each of the
\* two buttons is enabled exactly when both uploadedFiles entries are
\* non-null; no other step changes the files or the buttons.
C23_ButtonsFollowFiles ==
    [][/\ (FileSelectStep \/ ResetDashStep)
            => \A b \in {"validateBtn", "uploadBtn"} :
                  ~buttonsDisabled'[b] <=> \A slot \in Slots : uploadedFiles'[slot] # Null
       /\ (uploadedFiles' # uploadedFiles \/ buttonsDisabled' # buttonsDisabled)
            => (FileSelectStep \/ ResetDashStep)]_vars

\* the second file has just been selected: both buttons are enabled
C23_Witness ==
    /\ page = "dashboard"
    /\ shown.msg \in {"uploaded successfully!", "Invalid file type"}
    /\ \A slot \in Slots : uploadedFiles[slot] # Null
    /\ ~buttonsDisabled.validateBtn
    /\ ~buttonsDisabled.uploadBtn

\* C24: handleFormSubmit and validateFiles called while a file is missing
\* show their error alert and nothing else: no request is sent, and
\* currentProcessId, startTime, the active tab, the progress display and
\* uploadedFiles stay as they were.
C24_MissingFileOnlyAlerts ==
    [][(/\ page = "dashboard"
        /\ \E slot \in Slots : uploadedFiles[slot] = Null
        /\ handleFormSubmit \/ validateFiles)
            => /\ shown' \in {Note("Please upload both files", "error"),
                              Note("Please upload both files first", "error")}
               /\ sent' = NoReq
               /\ UNCHANGED <<currentProcessId, startTime, activeTab, progress,
                              uploadedFiles, pendingUploads, pendingMerges,
                              pendingPolls>>]_vars

\* the form was submitted with the boundaries file selected and no GeoTIFF
C24_Witness ==
    /\ page = "dashboard"
    /\ shown = Note("Please upload both files", "error")
    /\ uploadedFiles["boundaries"] # Null
    /\ uploadedFiles["geotiff"] = Null
    /\ sent = NoReq
    /\ startTime = "null"

\* C25: the verdict of validateFileType only selects the alert: a selected
\* file is recorded in uploadedFiles[type] whether or not it passes, the
\* buttons are enabled as soon as both entries are set, and a submission with
\* both entries set sends exactly the recorded files.
C25_ValidationDoesNotGate ==
    [][/\ \A slot \in Slots, file \in FileNames :
            (shown'.arg = slot /\ handleFileSelect(slot, file))
                => /\ uploadedFiles' = [uploadedFiles EXCEPT ![slot] = file]
                   /\ shown'.msg = IF validateFileType(file, slot)
                                    THEN "uploaded successfully!"
                                    ELSE "Invalid file type"
                   /\ buttonsDisabled'.uploadBtn
                        <=> \E other \in Slots \ {slot} : uploadedFiles[other] = Null
       /\ (/\ page = "dashboard"
           /\ \A slot \in Slots : uploadedFiles[slot] # Null
           /\ handleFormSubmit)
            => /\ sent' = UploadReq(uploadedFiles)
               /\ pendingUploads' = pendingUploads + 1]_vars

\* an upload request carrying a boundaries file that fails validateFileType
\* has been sent
C25_Witness ==
    /\ page = "dashboard"
    /\ sent = UploadReq(uploadedFiles)
    /\ pendingUploads > 0
    /\ uploadedFiles["boundaries"] # Null
    /\ ~validateFileType(uploadedFiles["boundaries"], "boundaries")
    /\ validateFileType(uploadedFiles["geotiff"], "geotiff")

C27_NotesRemovedSafely ==
    /\ \A k \in 1..MaxNotes :
          (k \in DOMAIN elements /\ elements[k].attached)
            ~> (k \in DOMAIN elements /\ ~elements[k].attached
                    /\ elements[k].timer = "done")
    /\ [][\A k \in DOMAIN elements :
            (~elements[k].attached /\ elements[k].timer = "remove"
                /\ elements'[k].timer = "done")
              => \A j \in DOMAIN elements : elements'[j].attached = elements[j].attached]_vars
    /\ [](~thrown)

\* the timer of an alert that resetDashboard had detached has fired, while
\* the alert of the reset is still shown
C27_Witness ==
    /\ page = "dashboard"
    /\ Len(elements) >= 2
    /\ elements[1] = [attached |-> FALSE, timer |-> "done"]
    /\ elements[Len(elements)] = NewAlert
    /\ \A k \in DOMAIN elements : k < Len(elements) => ~elements[k].attached
    /\ ~thrown

=============================================================================
